---------------------------- MODULE Spec2Model ----------------------------
(***************************************************************************)
(* A model of aocp/parsers.py: the parser classes, the splitter heuristic, *)
(* the sequence decomposer and the composite parsers built on them.        *)
(*                                                                         *)
(* Python strings are sequences of one-character strings.  Python values   *)
(* are records [tag, v]; an exception that leaves a call is the value      *)
(* [tag |-> "error", v |-> <exception class>].                             *)
(***************************************************************************)
EXTENDS Integers, Sequences, FiniteSets, TLC

VARIABLES
    pc,      \* "idle" | "running" | "done": where the caller is
    call,    \* the call being made: its operation and arguments
    result,  \* what the call returned or raised
    rest,    \* ChainParser._chain_parsers: the parsers still to apply
    cur,     \* ChainParser._chain_parsers: the value threaded through
    log,     \* the stages invoked so far, in order, with input and output
    inst,    \* a constructed parser instance (its attributes)
    hist     \* the outcomes observed on inst, per input text

vars == <<pc, call, result, rest, cur, log, inst, hist>>

---------------------------------------------------------------------------
(* Bounds of the model.                                                    *)

MaxDecideLen == 3
MaxIntLen == 4
MaxBoolLen == 3
MaxSplitLen == 4
MaxListLen == 4
MaxTupleLen == 4
MaxDictEntries == 3
MaxChainLen == 3
MaxCalls == 3

---------------------------------------------------------------------------
(* Python values.                                                          *)

NoneV == [tag |-> "None", v |-> 0]
Pending == [tag |-> "pending", v |-> 0]
StrV(s) == [tag |-> "str", v |-> s]
IntV(n) == [tag |-> "int", v |-> n]
BoolV(b) == [tag |-> "bool", v |-> b]
ListV(items) == [tag |-> "list", v |-> items]
TupleV(items) == [tag |-> "tuple", v |-> items]
SetV(elems) == [tag |-> "set", v |-> elems]
DictV(items) == [tag |-> "dict", v |-> items]
GeneratorV(items) == [tag |-> "generator", v |-> items]
ErrV(cls) == [tag |-> "error", v |-> cls]
\* the builtin type `str`, used as a callable
StrType == [tag |-> "type", v |-> "str"]

IsErr(x) == x.tag = "error"

\* Python truthiness of the values that reach an `or` / `if` in the code
Truthy(x) ==
    CASE x.tag = "None" -> FALSE
      [] x.tag = "str" -> Len(x.v) > 0
      [] x.tag = "list" -> Len(x.v) > 0
      [] x.tag = "tuple" -> Len(x.v) > 0
      [] x.tag = "int" -> x.v # 0
      [] x.tag = "bool" -> x.v
      [] OTHER -> TRUE

\* isinstance(x, collections.abc.Iterable): has __iter__
IsIterable(x) == x.tag \in {"str", "list", "tuple", "set", "dict", "generator"}

\* all strings over an alphabet up to a length
StringsUpTo(alphabet, n) == UNION {[1..k -> alphabet] : k \in 0..n}

---------------------------------------------------------------------------
(* Python's str methods.                                                   *)

IsSpace(c) == c \in {" ", "\n", "\t", "\r"}

RECURSIVE lstrip(_)
lstrip(s) == IF s # <<>> /\ IsSpace(Head(s)) THEN lstrip(Tail(s)) ELSE s

RECURSIVE rstrip(_)
rstrip(s) ==
    IF s # <<>> /\ IsSpace(s[Len(s)]) THEN rstrip(SubSeq(s, 1, Len(s) - 1)) ELSE s

\* str.strip()
str_strip(s) == rstrip(lstrip(s))

\* s[i:] starts with sub
StartsAt(s, sub, i) ==
    /\ i + Len(sub) - 1 <= Len(s)
    /\ \A k \in 1..Len(sub) : s[i + k - 1] = sub[k]

\* str.find(sub, start), 1-based; 0 when sub does not occur
RECURSIVE str_find(_, _, _)
str_find(s, sub, start) ==
    IF start + Len(sub) - 1 > Len(s) THEN 0
    ELSE IF StartsAt(s, sub, start) THEN start
    ELSE str_find(s, sub, start + 1)

\* sub in s
str_contains(s, sub) == str_find(s, sub, 1) # 0

\* str.split(sep, maxsplit) for a non-empty sep; maxsplit = -1: no limit
RECURSIVE str_split(_, _, _)
str_split(s, sep, maxsplit) ==
    LET i == str_find(s, sep, 1) IN
    IF maxsplit = 0 \/ i = 0 THEN <<s>>
    ELSE <<SubSeq(s, 1, i - 1)>>
            \o str_split(SubSeq(s, i + Len(sep), Len(s)), sep, maxsplit - 1)

\* str.replace(old, new, count) for a non-empty old; count = -1: no limit
RECURSIVE str_replace(_, _, _, _)
str_replace(s, old, new, count) ==
    LET i == str_find(s, old, 1) IN
    IF count = 0 \/ i = 0 THEN s
    ELSE SubSeq(s, 1, i - 1) \o new
            \o str_replace(SubSeq(s, i + Len(old), Len(s)), old, new, count - 1)

---------------------------------------------------------------------------
(* BaseAoCParser.SPLITTER_PRIORITY and BaseIterableParser._decide_splitter *)

SPLITTER_PRIORITY ==
    << <<"\n", "\n">>, <<"\n">>, <<"|">>, <<"-", ">">>, <<";">>, <<",">>,
       <<" ">>, <<":">> >>

\* the loop `for s in priority: if s in string.strip(): return s`
RECURSIVE first_present(_, _)
first_present(priority, stripped) ==
    IF priority = <<>> THEN NoneV
    ELSE IF str_contains(stripped, Head(priority)) THEN StrV(Head(priority))
    ELSE first_present(Tail(priority), stripped)

\* a plausible slip: the membership test on the unstripped string
_decide_splitter_unstripped(string, priority) ==
    first_present(IF Truthy(priority) THEN priority.v ELSE SPLITTER_PRIORITY, string)

_decide_splitter(string, priority) ==
    first_present(IF Truthy(priority) THEN priority.v ELSE SPLITTER_PRIORITY,
                  str_strip(string))

---------------------------------------------------------------------------
(* The caller of _decide_splitter.                                         *)

DecideAlphabet == {"\n", "|", "-", ">", ";", ",", " ", ":", "a"}

InitIdle ==
    /\ pc = "idle"
    /\ call = [op |-> "none"]
    /\ result = Pending
    /\ rest = <<>>
    /\ cur = Pending
    /\ log = <<>>
    /\ inst = NoneV
    /\ hist = <<>>

DecideSplitter ==
    /\ pc = "idle"
    /\ \E text \in StringsUpTo(DecideAlphabet, MaxDecideLen) :
         /\ call' = [op |-> "_decide_splitter", string |-> text]
         /\ result' = _decide_splitter(text, NoneV)
    /\ pc' = "done"
    /\ UNCHANGED <<rest, cur, log, inst, hist>>

SpecDecide == InitIdle /\ [][DecideSplitter]_vars

\* sub occurs in s, stated by position
Occurs(sub, s) ==
    \E i \in 1..Len(s) : i + Len(sub) - 1 <= Len(s) /\ SubSeq(s, i, i + Len(sub) - 1) = sub

\* s without its leading and trailing whitespace, stated by position
Trimmed(s) ==
    LET keep == {i \in 1..Len(s) : ~IsSpace(s[i])} IN
    IF keep = {} THEN <<>>
    ELSE SubSeq(s, CHOOSE i \in keep : \A j \in keep : i <= j,
                   CHOOSE i \in keep : \A j \in keep : i >= j)

\* C7: _decide_splitter returns the first delimiter of the priority list
\* that occurs in the stripped text (no higher-priority one occurs there),
\* and None exactly when none of them occurs.
C7_FirstPresentDelimiter ==
    (pc = "done" /\ call.op = "_decide_splitter") =>
        LET t == Trimmed(call.string)
            present == {k \in 1..Len(SPLITTER_PRIORITY) : Occurs(SPLITTER_PRIORITY[k], t)}
        IN  /\ (present = {}) <=> (result = NoneV)
            /\ present # {} =>
                 \E k \in present :
                    /\ result = StrV(SPLITTER_PRIORITY[k])
                    /\ \A j \in 1..(k - 1) : j \notin present

\* a text holding a newline and a comma resolves to the newline
C7_Witness ==
    /\ pc = "done" /\ call.op = "_decide_splitter"
    /\ Occurs(<<"\n">>, Trimmed(call.string))
    /\ Occurs(<<",">>, Trimmed(call.string))
    /\ result = StrV(<<"\n">>)


---------------------------------------------------------------------------
(* int(), str() and re.findall(r"-?\d+", ...), as IntParser uses them.     *)

DecimalDigits == <<"0", "1", "2", "3", "4", "5", "6", "7", "8", "9">>

IsDigit(c) == \E i \in 1..10 : DecimalDigits[i] = c

DigitValue(c) == (CHOOSE i \in 1..10 : DecimalDigits[i] = c) - 1

\* the index of the last character of the digit run starting at i
RECURSIVE run_end(_, _)
run_end(s, i) ==
    IF i + 1 <= Len(s) /\ IsDigit(s[i + 1]) THEN run_end(s, i + 1) ELSE i

\* re.findall(r"-?\d+", s), scanning from position i
RECURSIVE re_findall_integers(_, _)
re_findall_integers(s, i) ==
    IF i > Len(s) THEN <<>>
    ELSE IF s[i] = "-" /\ i + 1 <= Len(s) /\ IsDigit(s[i + 1])
         THEN LET j == run_end(s, i + 1) IN
              <<SubSeq(s, i, j)>> \o re_findall_integers(s, j + 1)
    ELSE IF IsDigit(s[i])
         THEN LET j == run_end(s, i) IN
              <<SubSeq(s, i, j)>> \o re_findall_integers(s, j + 1)
    ELSE re_findall_integers(s, i + 1)

\* the value of a run of digits in a base, most significant first
RECURSIVE digits_value(_, _)
digits_value(ds, base) ==
    IF ds = <<>> THEN 0
    ELSE digits_value(SubSeq(ds, 1, Len(ds) - 1), base) * base + DigitValue(ds[Len(ds)])

\* int(x, base) for a str x made of an optional "-" and decimal digit
\* characters (all that -?\d+ and str(int) produce)
py_int(x, base) ==
    IF base.tag # "int" THEN ErrV("TypeError")
    ELSE IF base.v \notin 2..36 THEN ErrV("ValueError")
    ELSE LET neg == x # <<>> /\ Head(x) = "-"
             ds == IF neg THEN Tail(x) ELSE x
         IN  IF ds = <<>> \/ \E k \in 1..Len(ds) :
                                ~IsDigit(ds[k]) \/ DigitValue(ds[k]) >= base.v
             THEN ErrV("ValueError")
             ELSE IntV(IF neg THEN -digits_value(ds, base.v) ELSE digits_value(ds, base.v))

\* the decimal digits of a natural number
RECURSIVE nat_digits(_)
nat_digits(n) ==
    IF n < 10 THEN <<DecimalDigits[n + 1]>>
    ELSE nat_digits(n \div 10) \o <<DecimalDigits[(n % 10) + 1]>>

\* str(n) for an int n
py_str_of_int(n) == IF n < 0 THEN <<"-">> \o nat_digits(-n) ELSE nat_digits(n)

\* BaseAoCParser._find_integers: the matches, each through int(x, base)
_find_integers(string, base) ==
    LET ms == re_findall_integers(string, 1) IN
    [k \in 1..Len(ms) |-> py_int(ms[k], base)]

\* IntParser.__init__
IntParser(base) == [cls |-> "IntParser", base |-> base]

\* `int(str(all_integers[0]), self.base)`; IndexError on an empty list
first_integer(self, all_integers) ==
    IF all_integers = <<>> THEN ErrV("IndexError")
    ELSE py_int(py_str_of_int(all_integers[1].v), self.base)

\* IntParser.parse: _find_integers is called without the base; a non-str
\* argument makes re.findall raise TypeError
IntParser_parse(self, string) ==
    IF string.tag # "str" THEN ErrV("TypeError")
    ELSE first_integer(self, _find_integers(string.v, IntV(10)))

IntAlphabet == {"0", "1", "2", "-", " ", "a"}

IntBases == {NoneV, IntV(2), IntV(10), IntV(16)}

IntParse ==
    /\ pc = "idle"
    /\ \E text \in StringsUpTo(IntAlphabet, MaxIntLen), base \in IntBases :
         /\ call' = [op |-> "IntParser.parse", string |-> text, base |-> base]
         /\ result' = IntParser_parse(IntParser(base), StrV(text))
    /\ pc' = "done"
    /\ UNCHANGED <<rest, cur, log, inst, hist>>

SpecInt == InitIdle /\ [][IntParse]_vars

\* the value of character c as a digit of a base up to 16 ("a" is ten);
\* 99 for a character that is no digit
DigitOf(c) == IF IsDigit(c) THEN DigitValue(c) ELSE IF c = "a" THEN 10 ELSE 99

\* the value of the digits s[i..j] in a base, stated without recursion on
\* the model's operators
RECURSIVE LiteralValue(_, _, _, _)
LiteralValue(s, i, j, b) ==
    IF j < i THEN 0 ELSE LiteralValue(s, i, j - 1, b) * b + DigitOf(s[j])

\* C4: a text holding exactly one optionally signed integer literal n of
\* the configured base (base 10 when the base is None), surrounded by
\* whitespace or non-digit text, parses to n.
C4_SingleLiteralParsed ==
    (pc = "done" /\ call.op = "IntParser.parse") =>
        LET s == call.string
            b == IF call.base = NoneV THEN 10 ELSE call.base.v
            digs == {i \in 1..Len(s) : DigitOf(s[i]) < 16}
        IN  \A i \in 1..Len(s), j \in 1..Len(s) :
              ( /\ i <= j
                /\ digs = i..j
                /\ \A k \in i..j : DigitOf(s[k]) < b )
              => result = IntV(IF i > 1 /\ s[i - 1] = "-"
                               THEN -LiteralValue(s, i, j, b)
                               ELSE LiteralValue(s, i, j, b))


---------------------------------------------------------------------------
(* BoolParser                                                              *)

\* BoolParser.__init__: `true or "1"`, `false or "0"`
BoolParser(true, false) ==
    [cls |-> "BoolParser",
     true |-> IF Truthy(true) THEN true ELSE StrV(<<"1">>),
     false |-> IF Truthy(false) THEN false ELSE StrV(<<"0">>)]

\* a plausible slip: the comparison on the unstripped string
BoolParser_parse_unstripped(self, string) ==
    IF string.tag # "str" THEN ErrV("AttributeError")
    ELSE IF StrV(string.v) = self.true THEN BoolV(TRUE)
    ELSE IF StrV(string.v) = self.false THEN BoolV(FALSE)
    ELSE ErrV("ValueError")

\* BoolParser.parse; a non-str argument has no strip()
BoolParser_parse(self, string) ==
    IF string.tag # "str" THEN ErrV("AttributeError")
    ELSE LET stripped == StrV(str_strip(string.v)) IN
         IF stripped = self.true THEN BoolV(TRUE)
         ELSE IF stripped = self.false THEN BoolV(FALSE)
         ELSE ErrV("ValueError")

BoolAlphabet == {"1", "0", "<", " "}

\* the tokens a caller passes: None (also the default), "" and literals
BoolTokens == {NoneV, StrV(<<>>), StrV(<<"1">>), StrV(<<"0">>), StrV(<<"<">>),
               StrV(<<"<", "1">>)}

BoolParse ==
    /\ pc = "idle"
    /\ \E text \in StringsUpTo(BoolAlphabet, MaxBoolLen),
          true \in BoolTokens, false \in BoolTokens :
         /\ call' = [op |-> "BoolParser.parse", string |-> text,
                     true |-> true, false |-> false]
         /\ result' = BoolParser_parse(BoolParser(true, false), StrV(text))
    /\ pc' = "done"
    /\ UNCHANGED <<rest, cur, log, inst, hist>>

SpecBool == InitIdle /\ [][BoolParse]_vars

\* C5 as stated: tokens T and F, "1" and "0" when None; True when the
\* trimmed input equals T, False when it equals F, a not-a-boolean error
\* for every other trimmed value.
C5_AsStated ==
    (pc = "done" /\ call.op = "BoolParser.parse") =>
        LET T == IF call.true = NoneV THEN <<"1">> ELSE call.true.v
            F == IF call.false = NoneV THEN <<"0">> ELSE call.false.v
            t == Trimmed(call.string)
        IN  /\ t = T => result = BoolV(TRUE)
            /\ t = F => result = BoolV(FALSE)
            /\ t \notin {T, F} => result = ErrV("ValueError")

\* C5 amended: the tokens default to "1" and "0" when None, not given or
\* empty; True when the trimmed input equals T; False when it equals F and
\* not T; a not-a-boolean error for every other trimmed value.
C5_BoolByToken ==
    (pc = "done" /\ call.op = "BoolParser.parse") =>
        LET T == IF call.true \in {NoneV, StrV(<<>>)} THEN <<"1">> ELSE call.true.v
            F == IF call.false \in {NoneV, StrV(<<>>)} THEN <<"0">> ELSE call.false.v
            t == Trimmed(call.string)
        IN  /\ t = T => result = BoolV(TRUE)
            /\ (t = F /\ t # T) => result = BoolV(FALSE)
            /\ t \notin {T, F} => result = ErrV("ValueError")

\* an input with surrounding whitespace that trims to a custom false token
C5_Witness ==
    /\ pc = "done" /\ call.op = "BoolParser.parse"
    /\ call.true = NoneV /\ call.false = StrV(<<"<">>)
    /\ call.string = <<" ", "<", " ">>
    /\ result = BoolV(FALSE)


---------------------------------------------------------------------------
(* CustomTransform, SortTransform, MapTransform, ReplaceTransform          *)

\* ord(c) of the characters the model uses
CodePoint(c) ==
    CASE c = "\t" -> 9 [] c = "\n" -> 10 [] c = "\r" -> 13 [] c = " " -> 32
      [] c = "," -> 44 [] c = "-" -> 45 [] c = "0" -> 48 [] c = "1" -> 49
      [] c = "2" -> 50 [] c = "3" -> 51 [] c = ":" -> 58 [] c = ";" -> 59
      [] c = "<" -> 60 [] c = ">" -> 62 [] c = "A" -> 65 [] c = "B" -> 66
      [] c = "_" -> 95 [] c = "a" -> 97 [] c = "b" -> 98 [] c = "|" -> 124
      [] OTHER -> 0

\* str.upper() of one character
UpperChar(c) == CASE c = "a" -> "A" [] c = "b" -> "B" [] OTHER -> c

\* str.upper
str_upper(s) == [k \in 1..Len(s) |-> UpperChar(s[k])]

\* insertion of c into an ascending run, after its equals (a stable sort)
RECURSIVE insert_sorted(_, _)
insert_sorted(c, run) ==
    IF run = <<>> THEN <<c>>
    ELSE IF CodePoint(c) < CodePoint(Head(run)) THEN <<c>> \o run
    ELSE <<Head(run)>> \o insert_sorted(c, Tail(run))

RECURSIVE sorted_ascending(_)
sorted_ascending(s) ==
    IF s = <<>> THEN <<>>
    ELSE insert_sorted(s[Len(s)], sorted_ascending(SubSeq(s, 1, Len(s) - 1)))

\* sorted(s, reverse=reverse) of a str, joined
py_sorted(s, reverse) ==
    LET up == sorted_ascending(s) IN
    IF reverse THEN [k \in 1..Len(up) |-> up[Len(up) + 1 - k]] ELSE up

\* CustomTransform.__init__; the functions of the model are named
CustomTransform(function) == [cls |-> "CustomTransform", function |-> function]

\* CustomTransform.parse with function str.upper (a method descriptor: a
\* non-str argument raises TypeError)
CustomTransform_parse(self, string) ==
    IF string.tag # "str" THEN ErrV("TypeError") ELSE StrV(str_upper(string.v))

\* SortTransform.__init__
SortTransform(reverse) == [cls |-> "SortTransform", reverse |-> reverse, key |-> NoneV]

\* SortTransform.parse; sorted() of a non-iterable raises TypeError
SortTransform_parse(self, string) ==
    IF string.tag # "str" THEN ErrV("TypeError")
    ELSE StrV(py_sorted(string.v, self.reverse))

\* MapTransform.__init__; the mapping is a sequence of <<key, value>> items
MapTransform(mapping) == [cls |-> "MapTransform", mapping |-> mapping]

\* MapTransform.parse: self.mapping[string]
MapTransform_parse(self, string) ==
    IF \E k \in 1..Len(self.mapping) : self.mapping[k][1] = string
    THEN self.mapping[CHOOSE k \in 1..Len(self.mapping) : self.mapping[k][1] = string][2]
    ELSE ErrV("KeyError")

\* ReplaceTransform.__init__; the mapping keeps its insertion order
ReplaceTransform(mapping) == [cls |-> "ReplaceTransform", mapping |-> mapping]

\* the loop `for key, value in self.mapping.items(): string = string.replace(key, value)`
RECURSIVE replace_each(_, _)
replace_each(string, items) ==
    IF items = <<>> THEN string
    ELSE replace_each(str_replace(string, Head(items)[1], Head(items)[2], -1), Tail(items))

\* ReplaceTransform.parse; a non-str argument has no replace()
ReplaceTransform_parse(self, string) ==
    IF string.tag # "str" THEN ErrV("AttributeError")
    ELSE StrV(replace_each(string.v, self.mapping))

\* p.parse(x) for a transform parser p
transform_parse(p, x) ==
    CASE p.cls = "IntParser" -> IntParser_parse(p, x)
      [] p.cls = "BoolParser" -> BoolParser_parse(p, x)
      [] p.cls = "CustomTransform" -> CustomTransform_parse(p, x)
      [] p.cls = "SortTransform" -> SortTransform_parse(p, x)
      [] p.cls = "MapTransform" -> MapTransform_parse(p, x)
      [] p.cls = "ReplaceTransform" -> ReplaceTransform_parse(p, x)

---------------------------------------------------------------------------
(* ChainParser                                                             *)

\* ChainParser.__init__
ChainParser(parsers) == [cls |-> "ChainParser", parsers |-> parsers]

\* a frame: what parsers[0].parse(string) gave, and the arguments of the
\* recursive call
Frame(parsed_content, string, parsers) ==
    [out |-> parsed_content, string |-> string, parsers |-> parsers]

\* a plausible slip: the recursive call is handed the original string
_chain_parsers_frame_same_string(string, parsers) ==
    Frame(transform_parse(parsers[1], string), string, Tail(parsers))

\* One frame of ChainParser._chain_parsers with a non-empty list:
\* `parsed_content = parsers[0].parse(string)`, then the recursive call on
\* (parsed_content, parsers[1:]).
_chain_parsers_frame(string, parsers) ==
    Frame(transform_parse(parsers[1], string), transform_parse(parsers[1], string),
          Tail(parsers))

ChainAlphabet == {"a", "b", "1"}

MaxChainText == 2

\* the stages a chain of the model is built from
ChainStages ==
    {SortTransform(FALSE), CustomTransform("str.upper"), IntParser(IntV(10)),
     BoolParser(NoneV, NoneV),
     ReplaceTransform(<< <<(<<"a">>), (<<"b">>)>>, <<(<<"b">>), (<<"1">>)>> >>),
     MapTransform(<< <<StrV(<<"a">>), IntV(1)>>, <<StrV(<<"A">>), StrV(<<"b", "a">>)>> >>)}

\* ChainParser.parse: the first call of _chain_parsers
ChainCall ==
    /\ pc = "idle"
    /\ \E text \in StringsUpTo(ChainAlphabet, MaxChainText),
          parsers \in StringsUpTo(ChainStages, MaxChainLen) :
         /\ inst' = ChainParser(parsers)
         /\ call' = [op |-> "ChainParser.parse", string |-> text]
         /\ cur' = StrV(text)
         /\ rest' = parsers
    /\ pc' = "running"
    /\ log' = <<>>
    /\ UNCHANGED <<result, hist>>

\* a frame with parsers left: parsers[0].parse(string), then the recursive
\* call, or the exception leaving every frame
EnterFrame(frame) ==
    /\ log' = Append(log, [parser |-> Head(rest), input |-> cur, output |-> frame.out])
    /\ IF IsErr(frame.out)
       THEN /\ result' = frame.out
            /\ pc' = "done"
            /\ UNCHANGED <<cur, rest>>
       ELSE /\ cur' = frame.string
            /\ rest' = frame.parsers
            /\ UNCHANGED <<result, pc>>

ChainStep ==
    /\ pc = "running"
    /\ rest # <<>>
    /\ EnterFrame(_chain_parsers_frame(cur, rest))
    /\ UNCHANGED <<call, inst, hist>>

\* the frame with no parsers left: `if not parsers: return string`
ChainReturn ==
    /\ pc = "running"
    /\ rest = <<>>
    /\ result' = cur
    /\ pc' = "done"
    /\ UNCHANGED <<call, rest, cur, log, inst, hist>>

ChainNext == ChainCall \/ ChainStep \/ ChainReturn

SpecChain == InitIdle /\ [][ChainNext]_vars

\* pk(...p1(x)), an error of a stage standing for every later stage
RECURSIVE Composed(_, _, _)
Composed(x, ps, k) ==
    IF k = 0 THEN x
    ELSE LET prev == Composed(x, ps, k - 1) IN
         IF IsErr(prev) THEN prev ELSE transform_parse(ps[k], prev)

\* C6: the stages are invoked in list order, stage i+1 on the output of
\* stage i and stage 1 on the input text; the result is pn(...p1(text)), the
\* input itself for an empty chain; when stage i fails the call fails with
\* its error and no later stage is invoked.
C6_ChainInOrder ==
    (call.op = "ChainParser.parse") =>
        LET ps == inst.parsers
            x == StrV(call.string)
        IN  /\ Len(log) <= Len(ps)
            /\ \A i \in 1..Len(log) :
                 /\ log[i].parser = ps[i]
                 /\ log[i].input = Composed(x, ps, i - 1)
                 /\ log[i].output = Composed(x, ps, i)
                 /\ i < Len(log) => ~IsErr(log[i].output)
            /\ pc = "done" =>
                 /\ result = Composed(x, ps, Len(ps))
                 /\ ps = <<>> => result = x
                 /\ IsErr(result) <=> (log # <<>> /\ IsErr(log[Len(log)].output))
                 /\ ~IsErr(result) => Len(log) = Len(ps)

\* Chain([Sort(), CustomFunction(str.upper)]) turns "ba" into "AB"
C6_Witness ==
    /\ pc = "done" /\ call.op = "ChainParser.parse"
    /\ inst.parsers = <<SortTransform(FALSE), CustomTransform("str.upper")>>
    /\ call.string = <<"b", "a">>
    /\ result = StrV(<<"A", "B">>)
    /\ Len(log) = 2

\* a chain whose second of three stages fails: the third is never invoked
C6_WitnessFailure ==
    /\ pc = "done" /\ call.op = "ChainParser.parse"
    /\ Len(inst.parsers) = 3 /\ Len(log) = 2
    /\ IsErr(result)


---------------------------------------------------------------------------
(* BaseIterableParser._split                                               *)

\* the literal "__split__"
SplitPlaceholder == <<"_", "_", "s", "p", "l", "i", "t", "_", "_">>

\* the elements iteration over x yields: the characters of a str, the
\* items of a list or tuple
Elements(x) ==
    IF x.tag = "str" THEN [k \in 1..Len(x.v) |-> StrV(<<x.v[k]>>)] ELSE x.v

\* `count` as str.split and str.replace take it: all occurrences when the
\* code's `if count` is false (None, and 0 as well)
EffectiveCount(count) == IF Truthy(count) THEN count.v ELSE -1

\* the loop over the literals of a sequence splitter: each replaced by the
\* placeholder in the string the previous replacement left
RECURSIVE replace_splitters(_, _, _)
replace_splitters(string, literals, count) ==
    IF literals = <<>> THEN string
    ELSE replace_splitters(
            str_replace(string, Head(literals).v, SplitPlaceholder, EffectiveCount(count)),
            Tail(literals), count)

\* the list str.split returns
StrList(ps) == ListV([k \in 1..Len(ps) |-> StrV(ps[k])])

\* BaseIterableParser._split: a generator of characters without a splitter,
\* str.split for a str, and for a sequence of literals the replacement loop
\* and the recursive call on the placeholder; str.replace raises TypeError on
\* a literal that is no str
_split(string, splitter, count) ==
    IF ~Truthy(splitter)
    THEN GeneratorV([k \in 1..Len(string) |-> StrV(<<string[k]>>)])
    ELSE IF splitter.tag = "str"
    THEN StrList(str_split(string, splitter.v, EffectiveCount(count)))
    ELSE IF ~IsIterable(splitter) THEN ErrV("TypeError")
    ELSE IF \E k \in 1..Len(Elements(splitter)) : Elements(splitter)[k].tag # "str"
    THEN ErrV("TypeError")
    ELSE StrList(str_split(replace_splitters(string, Elements(splitter), count),
                           SplitPlaceholder, EffectiveCount(count)))

SplitAlphabet == {"a", ",", ";", "_"}

\* the delimiter specifications of the model: single literals and ordered
\* sets of literals
SplitSpecs ==
    {StrV(<<",">>), StrV(<<",", ";">>),
     ListV(<<StrV(<<",">>), StrV(<<";">>)>>),
     ListV(<<StrV(<<";">>), StrV(<<",">>)>>),
     ListV(<<StrV(<<",">>), StrV(<<"_">>)>>)}

MaxSplitCount == 2

SplitCounts == {NoneV} \cup {IntV(n) : n \in 0..MaxSplitCount}

Split ==
    /\ pc = "idle"
    /\ \E text \in StringsUpTo(SplitAlphabet, MaxSplitLen),
          splitter \in SplitSpecs, count \in SplitCounts :
         /\ call' = [op |-> "_split", string |-> text, splitter |-> splitter,
                     count |-> count]
         /\ result' = _split(text, splitter, count)
    /\ pc' = "done"
    /\ UNCHANGED <<rest, cur, log, inst, hist>>

SpecSplit == InitIdle /\ [][Split]_vars

\* the literals of a delimiter specification, as a set
LiteralsOf(splitter) ==
    IF splitter.tag = "str" THEN {splitter.v}
    ELSE {splitter.v[k].v : k \in 1..Len(splitter.v)}

\* the first position of s where a literal occurs, 0 when none does
FirstCut(s, literals) ==
    LET at == {i \in 1..Len(s) : \E d \in literals :
                  i + Len(d) - 1 <= Len(s) /\ SubSeq(s, i, i + Len(d) - 1) = d}
    IN  IF at = {} THEN 0 ELSE CHOOSE i \in at : \A j \in at : i <= j

\* the pieces of s cut at its first L occurrences of a literal (at every
\* occurrence when L = -1)
RECURSIVE CutPieces(_, _, _)
CutPieces(s, literals, L) ==
    LET i == FirstCut(s, literals) IN
    IF L = 0 \/ i = 0 THEN <<s>>
    ELSE LET d == CHOOSE d \in literals :
                     /\ i + Len(d) - 1 <= Len(s) /\ SubSeq(s, i, i + Len(d) - 1) = d
                     /\ \A e \in literals :
                          (i + Len(e) - 1 <= Len(s) /\ SubSeq(s, i, i + Len(e) - 1) = e)
                              => Len(e) <= Len(d)
         IN  <<SubSeq(s, 1, i - 1)>>
                \o CutPieces(SubSeq(s, i + Len(d), Len(s)), literals, L - 1)

\* C9: for a single literal or an ordered set of literals and a limit
\* L >= 0, _split returns the pieces of the text cut at its first L
\* delimiter occurrences: at most L + 1 pieces, each a substring of the
\* text; with no limit it cuts at every occurrence.
C9_CutAtFirstOccurrences ==
    (pc = "done" /\ call.op = "_split") =>
        LET L == IF call.count = NoneV THEN -1 ELSE call.count.v
            pieces == CutPieces(call.string, LiteralsOf(call.splitter), L)
        IN  /\ result.tag = "list"
            /\ result.v = [k \in 1..Len(pieces) |-> StrV(pieces[k])]
            /\ L >= 0 => Len(result.v) <= L + 1
            /\ \A k \in 1..Len(result.v) :
                 result.v[k].v = <<>> \/ Occurs(result.v[k].v, call.string)


---------------------------------------------------------------------------
(* BaseIterableParser._iterable_parse and the generators it returns        *)

\* a parser instance held in a subparser slot
ParserV(p) == [tag |-> "parser", v |-> p]

\* f(x) for what a subparser slot holds: the type str, a parser instance
\* (BaseAoCParser.__call__), or a value that is not callable
call_value(f, x) ==
    CASE f.tag = "type" -> x
      [] f.tag = "parser" -> transform_parse(f.v, x)
      [] OTHER -> ErrV("TypeError")

\* a plausible slip: positional mode without the limit len(subparser) - 1
positional_count_unlimited(subparser, count) == count

\* the limit of positional mode: `len(subparser) - 1 if count is None else count`
positional_count(subparser, count) ==
    IF count = NoneV THEN IntV(Len(Elements(subparser)) - 1) ELSE count

\* uniform mode: `s.strip() for s in sequence if s.strip()`
uniform_pieces(sequence) ==
    SelectSeq([k \in 1..Len(sequence) |-> StrV(str_strip(sequence[k].v))],
              LAMBDA t : t.v # <<>>)

\* the generator `(subparser(s) for s in pieces)`: its pending calls [f, x]
UniformCalls(subparser, pieces) ==
    GeneratorV([k \in 1..Len(pieces) |-> [f |-> subparser, x |-> pieces[k]]])

\* _iterable_parse from the second isinstance test on: in positional mode
\* len(sequence) (TypeError for a generator), the assert, and the generator
\* over zip(subparser, sequence); in uniform mode the generator over the
\* trimmed non-empty pieces.  An exception of _split has left the function.
pair_with_subparsers(sequence, subparser) ==
    IF IsErr(sequence) THEN sequence
    ELSE IF IsIterable(subparser)
    THEN IF sequence.tag = "generator" THEN ErrV("TypeError")
         ELSE IF Len(Elements(subparser)) # Len(sequence.v) THEN ErrV("AssertionError")
         ELSE GeneratorV([k \in 1..Len(sequence.v) |->
                            [f |-> Elements(subparser)[k],
                             x |-> StrV(str_strip(sequence.v[k].v))]])
    ELSE UniformCalls(subparser, uniform_pieces(sequence.v))

\* BaseIterableParser._iterable_parse.  The generator it returns is the
\* sequence of pending calls [f, x]; what it raises itself (from _split, from
\* len() of a generator, from the assert) is raised at the call.
_iterable_parse(string, splitter, subparser, count) ==
    pair_with_subparsers(
        _split(string,
               IF Truthy(splitter) THEN splitter ELSE _decide_splitter(string, NoneV),
               IF IsIterable(subparser) THEN positional_count(subparser, count) ELSE count),
        subparser)

\* the values in order, or the first exception among them
AllOrFirstError(vals) ==
    IF \A k \in 1..Len(vals) : ~IsErr(vals[k]) THEN ListV(vals)
    ELSE vals[CHOOSE k \in 1..Len(vals) :
                 IsErr(vals[k]) /\ \A j \in 1..(k - 1) : ~IsErr(vals[j])]

\* running a generator of pending calls to its end (list(...), set(...),
\* tuple(...), *sequence): the values in order, or the first exception; an
\* exception raised before there was a generator passes through
Consume(gen) ==
    IF IsErr(gen) THEN gen
    ELSE AllOrFirstError([k \in 1..Len(gen.v) |-> call_value(gen.v[k].f, gen.v[k].x)])

\* BaseIterableParser.__init__: `subparser or str`
BaseIterableParser(cls, subparser, splitter) ==
    [cls |-> cls, splitter |-> splitter,
     subparser |-> IF Truthy(subparser) THEN subparser ELSE StrType]

\* ListParser.parse: list(...) of the generator
ListParser_parse(self, string) ==
    Consume(_iterable_parse(str_strip(string), self.splitter, self.subparser, NoneV))

\* set(...) of the values a generator gave
py_set(got) == IF IsErr(got) THEN got ELSE SetV({got.v[k] : k \in 1..Len(got.v)})

\* SetParser.parse: set(...) of the generator
SetParser_parse(self, string) ==
    py_set(Consume(_iterable_parse(str_strip(string), self.splitter, self.subparser, NoneV)))

\* IntListParser.__init__
IntListParser(base) == [cls |-> "IntListParser", base |-> base]

\* IntListParser.parse: the first int() that raises ends the comprehension
IntListParser_parse(self, string) == AllOrFirstError(_find_integers(string, self.base))

ListAlphabet == {"a", "1", ",", " ", "_"}

\* the explicit splitters of the model: single literals and an ordered set
ListSplitters ==
    {StrV(<<",">>), StrV(<<"a">>), StrV(<<",", " ">>),
     ListV(<<StrV(<<",">>), StrV(<<"_">>)>>)}

\* the uniform subparsers of the model: the default and an IntParser
ListSubparsers == {NoneV, ParserV(IntParser(IntV(10)))}

ListParse ==
    /\ pc = "idle"
    /\ \E text \in StringsUpTo(ListAlphabet, MaxListLen),
          splitter \in ListSplitters, subparser \in ListSubparsers :
         /\ call' = [op |-> "ListParser.parse", string |-> text,
                     splitter |-> splitter, subparser |-> subparser]
         /\ result' = ListParser_parse(
                          BaseIterableParser("ListParser", subparser, splitter), text)
    /\ pc' = "done"
    /\ UNCHANGED <<rest, cur, log, inst, hist>>

SetParse ==
    /\ pc = "idle"
    /\ \E text \in StringsUpTo(ListAlphabet, MaxListLen),
          splitter \in ListSplitters, subparser \in ListSubparsers :
         /\ call' = [op |-> "SetParser.parse", string |-> text,
                     splitter |-> splitter, subparser |-> subparser]
         /\ result' = SetParser_parse(
                          BaseIterableParser("SetParser", subparser, splitter), text)
    /\ pc' = "done"
    /\ UNCHANGED <<rest, cur, log, inst, hist>>

ListNext == ListParse \/ SetParse

SpecList == InitIdle /\ [][ListNext]_vars

\* the elements the claim expects: the pieces of the trimmed text between
\* the delimiter occurrences, each trimmed, the empty ones dropped, each
\* through the subparser; an error when a subparser call fails
ExpectedElements(text, splitter, subparser) ==
    LET raw == CutPieces(Trimmed(text), LiteralsOf(splitter), -1)
        kept == SelectSeq([k \in 1..Len(raw) |-> Trimmed(raw[k])], LAMBDA t : t # <<>>)
        vals == [k \in 1..Len(kept) |->
                    IF subparser = NoneV THEN StrV(kept[k])
                    ELSE IntParser_parse(subparser.v, StrV(kept[k]))]
    IN  vals

\* C8: with an explicit splitter and a uniform subparser, ListParser.parse
\* returns the trimmed non-empty pieces in their order of occurrence,
\* repeats kept, and SetParser.parse the set of the elements of that list.
C8_ListAndSetOfPieces ==
    (pc = "done" /\ call.op \in {"ListParser.parse", "SetParser.parse"}) =>
        LET vals == ExpectedElements(call.string, call.splitter, call.subparser)
            fails == \E k \in 1..Len(vals) : IsErr(vals[k])
        IN  /\ fails => IsErr(result)
            /\ (~fails /\ call.op = "ListParser.parse") => result = ListV(vals)
            /\ (~fails /\ call.op = "SetParser.parse") =>
                   result = SetV({vals[k] : k \in 1..Len(vals)})

\* C8 for a splitter that is a single literal
C8_SingleLiteralSplitter ==
    (pc = "done" /\ call.op \in {"ListParser.parse", "SetParser.parse"}
        /\ call.splitter.tag = "str") => C8_ListAndSetOfPieces


---------------------------------------------------------------------------
(* TupleParser                                                             *)

\* TupleParser.__init__, its parameters in the order of the signature; the
\* assert forbids a format together with a splitter
TupleParser(subparser, splitter, format, dataclass) ==
    IF format # NoneV /\ splitter # NoneV THEN ErrV("AssertionError")
    ELSE [cls |-> "TupleParser",
          subparser |-> IF Truthy(subparser) THEN subparser ELSE StrType,
          splitter |-> splitter, format |-> format, dataclass |-> dataclass]

\* the opening and closing of a template field, "{}"
FieldMark == <<"{", "}">>

\* parse.parse(format, string) for a template of two "{}" fields around
\* literal text: the captures, the first as short as a match allows, or None
parse_parse(format, string) ==
    LET segs == str_split(format, FieldMark, -1)
        fits(n) ==
            /\ n >= 1
            /\ Len(segs[1]) + n + Len(segs[2]) + 1 + Len(segs[3]) <= Len(string)
            /\ StartsAt(string, segs[1], 1)
            /\ StartsAt(string, segs[2], Len(segs[1]) + n + 1)
            /\ StartsAt(string, segs[3], Len(string) - Len(segs[3]) + 1)
        ns == {n \in 1..Len(string) : fits(n)}
    IN  IF Len(segs) # 3 \/ ns = {} THEN NoneV
        ELSE LET n == CHOOSE n \in ns : \A m \in ns : n <= m IN
             ListV(<< StrV(SubSeq(string, Len(segs[1]) + 1, Len(segs[1]) + n)),
                      StrV(SubSeq(string, Len(segs[1]) + n + Len(segs[2]) + 1,
                                  Len(string) - Len(segs[3]))) >>)

\* the number of parameters `def _format_parse(format, string, subparser)`
\* declares: it is defined in the class body without self and without
\* @staticmethod
_format_parse_parameters == 3

\* the body of TupleParser._format_parse: the captures, the length assert of
\* positional mode, and the generator; in positional mode the generator
\* calls the capture on the subparser (`p(s) for p, s in zip(sequence,
\* subparser)`)
pair_captures(sequence, subparser) ==
    IF sequence = NoneV THEN ErrV("TypeError")
    ELSE IF IsIterable(subparser)
    THEN IF Len(Elements(subparser)) # Len(sequence.v) THEN ErrV("AssertionError")
         ELSE GeneratorV([k \in 1..Len(sequence.v) |->
                            [f |-> sequence.v[k], x |-> Elements(subparser)[k]]])
    ELSE UniformCalls(subparser, sequence.v)

_format_parse(format, string, subparser) ==
    pair_captures(parse_parse(format.v, string.v), subparser)

\* the call self._format_parse(self.format, string, self.subparser): the
\* bound method passes the instance first, so four arguments reach a
\* function of three parameters and the call raises TypeError
call_format_parse(self, string) ==
    LET args == <<self, self.format, string, self.subparser>> IN
    IF Len(args) # _format_parse_parameters THEN ErrV("TypeError")
    ELSE _format_parse(args[1], args[2], args[3])

\* dataclass(*sequence) for a record constructor of a given number of fields
construct_record(dataclass, items) ==
    IF Len(items) # dataclass.v THEN ErrV("TypeError")
    ELSE [tag |-> "record", v |-> items]

\* the end of TupleParser.parse: self.dataclass(*sequence) or tuple(sequence)
build_tuple(self, got) ==
    IF IsErr(got) THEN got
    ELSE IF Truthy(self.dataclass) THEN construct_record(self.dataclass, got.v)
    ELSE TupleV(got.v)

\* TupleParser.parse
TupleParser_parse(self, string) ==
    build_tuple(self,
        Consume(IF Truthy(self.format)
                THEN call_format_parse(self, StrV(string))
                ELSE _iterable_parse(str_strip(string), self.splitter,
                                     self.subparser, NoneV)))

TupleAlphabet == {"1", "a", ",", " "}

TupleSplitters == {StrV(<<",">>), StrV(<<",", " ">>)}

MaxTupleArity == 3

\* the positional lists of the model: str and IntParser() in every order
TupleSubparsers ==
    {ListV(ps) : ps \in UNION {[1..k -> {StrType, ParserV(IntParser(IntV(10)))}] :
                                 k \in 1..MaxTupleArity}}

\* the templates of the model
TupleFormats == {StrV(<<"{", "}", ",", "{", "}">>), StrV(<<"a", "{", "}", " ", "{", "}">>)}

\* TupleParser(subparser=..., splitter=...).parse(text)
TupleParse ==
    /\ pc = "idle"
    /\ \E text \in StringsUpTo(TupleAlphabet, MaxTupleLen),
          splitter \in TupleSplitters, subparser \in TupleSubparsers :
         /\ call' = [op |-> "TupleParser.parse", string |-> text,
                     splitter |-> splitter, subparser |-> subparser, format |-> NoneV]
         /\ result' = TupleParser_parse(TupleParser(subparser, splitter, NoneV, NoneV), text)
    /\ pc' = "done"
    /\ UNCHANGED <<rest, cur, log, inst, hist>>

\* TupleParser(subparser=..., format=...).parse(text)
TupleFormatParse ==
    /\ pc = "idle"
    /\ \E text \in StringsUpTo(TupleAlphabet, MaxTupleLen),
          format \in TupleFormats,
          subparser \in {NoneV, ParserV(IntParser(IntV(10))),
                         ListV(<<StrType, ParserV(IntParser(IntV(10)))>>)} :
         /\ call' = [op |-> "TupleParser.parse", string |-> text,
                     splitter |-> NoneV, subparser |-> subparser, format |-> format]
         /\ result' = TupleParser_parse(TupleParser(subparser, NoneV, format, NoneV), text)
    /\ pc' = "done"
    /\ UNCHANGED <<rest, cur, log, inst, hist>>

TupleNext == TupleParse \/ TupleFormatParse

SpecTuple == InitIdle /\ [][TupleNext]_vars

\* a subparser of the model applied to a piece
Applied(f, piece) ==
    IF f = StrType THEN StrV(piece) ELSE IntParser_parse(f.v, StrV(piece))

\* the tuple of the pieces through their subparsers, or the error of the
\* first subparser that fails
TupleOf(fs, pieces) ==
    LET vals == [k \in 1..Len(pieces) |-> Applied(fs[k], Trimmed(pieces[k]))]
        bad == {k \in 1..Len(vals) : IsErr(vals[k])}
    IN  IF bad = {} THEN TupleV(vals) ELSE vals[CHOOSE k \in bad : \A j \in bad : k <= j]

\* C2 as stated: with k positional subparsers and no limit given, an input
\* whose number of delimiter-separated fields differs from k fails with the
\* arity mismatch and never returns a tuple; with k fields it returns the
\* k-tuple of the parsed fields.
C2_AsStated ==
    (pc = "done" /\ call.op = "TupleParser.parse" /\ call.format = NoneV) =>
        LET fs == call.subparser.v
            fields == CutPieces(Trimmed(call.string), {call.splitter.v}, -1)
        IN  /\ Len(fields) # Len(fs) => result = ErrV("AssertionError")
            /\ Len(fields) = Len(fs) => result = TupleOf(fs, fields)

\* C2 amended: the trimmed text is cut at its first k - 1 delimiter
\* occurrences (at every occurrence when k = 1).  The arity mismatch is
\* raised exactly when the text has fewer than k fields, or k = 1 and more
\* than one field; with at least k >= 2 fields the result is the k-tuple of
\* the first k - 1 fields and the rest of the text, delimiters included,
\* each trimmed and through its subparser (or that subparser's error).
C2_ArityAfterBoundedCut ==
    (pc = "done" /\ call.op = "TupleParser.parse" /\ call.format = NoneV) =>
        LET fs == call.subparser.v
            k == Len(fs)
            fields == CutPieces(Trimmed(call.string), {call.splitter.v}, -1)
            pieces == CutPieces(Trimmed(call.string), {call.splitter.v},
                                IF k = 1 THEN -1 ELSE k - 1)
            mismatch == Len(fields) < k \/ (k = 1 /\ Len(fields) > 1)
        IN  /\ mismatch => result = ErrV("AssertionError")
            /\ ~mismatch => /\ Len(pieces) = k
                            /\ result = TupleOf(fs, pieces)
                            /\ \A i \in 1..(k - 1) : pieces[i] = fields[i]

\* more fields than subparsers, and a tuple all the same: "1,,1" with
\* [Int, Int] gives (1, 1)
C2_Witness ==
    /\ pc = "done" /\ call.op = "TupleParser.parse" /\ call.format = NoneV
    /\ Len(call.subparser.v) = 2
    /\ Len(CutPieces(Trimmed(call.string), {call.splitter.v}, -1)) = 3
    /\ result.tag = "tuple" /\ Len(result.v) = 2

\* C3: in format mode, for every input the template matches, parse returns
\* the tuple of the captures in template order, each through the subparser
\* (the i-th subparser on the i-th capture in positional mode); it fails
\* with a format mismatch only when the template does not match.
C3_FormatCaptures ==
    (pc = "done" /\ call.op = "TupleParser.parse" /\ call.format # NoneV) =>
        LET m == parse_parse(call.format.v, call.string)
            fs == IF call.subparser = NoneV THEN <<StrType, StrType>>
                  ELSE IF call.subparser.tag = "list" THEN call.subparser.v
                  ELSE <<call.subparser, call.subparser>>
            vals == [k \in 1..2 |-> Applied(fs[k], m.v[k].v)]
        IN  m # NoneV =>
              IF \E k \in 1..2 : IsErr(vals[k])
              THEN result \in {vals[k] : k \in 1..2}
              ELSE result = TupleV(vals)


---------------------------------------------------------------------------
(* DictParser                                                              *)

\* DictParser.__init__.  TupleParser is called with two positional
\* arguments, (self.key_value_splitter, [self.key_parser, self.value_parser]),
\* which its signature binds to subparser and splitter in that order.
DictParser(key_parser, value_parser, sequence_splitter, key_value_splitter) ==
    LET kp == IF Truthy(key_parser) THEN key_parser ELSE StrType
        vp == IF Truthy(value_parser) THEN value_parser ELSE StrType
    IN  [cls |-> "DictParser",
         sequence_splitter |-> sequence_splitter,
         key_value_splitter |-> key_value_splitter,
         key_parser |-> kp, value_parser |-> vp,
         tuple_parser |-> TupleParser(key_value_splitter, ListV(<<kp, vp>>), NoneV, NoneV)]

\* dict(pairs): each element must have two items (ValueError otherwise);
\* a later pair replaces an earlier one with the same key
py_dict(pairs) ==
    IF \E k \in 1..Len(pairs) : Len(pairs[k].v) # 2 THEN ErrV("ValueError")
    ELSE DictV({<<pairs[k].v[1], pairs[k].v[2]>> : k \in
                  {k \in 1..Len(pairs) :
                      \A j \in (k + 1)..Len(pairs) : pairs[j].v[1] # pairs[k].v[1]}})

\* DictParser.parse: the entries, then dict() over tuple_parser.parse of each
\* dict(...) of the tuples, or the first exception of a tuple_parser.parse
dict_of(pairs) == IF IsErr(pairs) THEN pairs ELSE py_dict(pairs.v)

\* the generator `self.tuple_parser.parse(s) for s in sequence`, run by dict()
parse_entries(self, entries) ==
    IF IsErr(entries) THEN entries
    ELSE dict_of(AllOrFirstError([k \in 1..Len(entries.v) |->
                     TupleParser_parse(self.tuple_parser, entries.v[k].v)]))

\* DictParser.parse: the entries, then dict() over tuple_parser.parse of each
DictParser_parse(self, string) ==
    parse_entries(self, Consume(_iterable_parse(string, self.sequence_splitter,
                                                StrType, NoneV)))

\* the entries the inputs of the model are joined from
DictEntries ==
    {<<"a", ":", "1">>, <<"a", ":", "2">>, <<"b", ":", "2">>, <<"b", ":", "a">>,
     <<"a">>, <<"a", ":", "1", ":", "2">>}

\* sep.join(parts)
RECURSIVE JoinWith(_, _)
JoinWith(parts, sep) ==
    IF parts = <<>> THEN <<>>
    ELSE IF Len(parts) = 1 THEN parts[1]
    ELSE parts[1] \o sep \o JoinWith(Tail(parts), sep)

\* DictParser(...).parse(text), the text being entries joined by ","
DictParse ==
    /\ pc = "idle"
    /\ \E entries \in StringsUpTo(DictEntries, MaxDictEntries),
          value_parser \in {NoneV, ParserV(IntParser(IntV(10)))},
          sequence_splitter \in {NoneV, StrV(<<",">>)},
          key_value_splitter \in {NoneV, StrV(<<":">>)} :
         /\ call' = [op |-> "DictParser.parse", entries |-> entries,
                     string |-> JoinWith(entries, <<",">>),
                     value_parser |-> value_parser,
                     sequence_splitter |-> sequence_splitter,
                     key_value_splitter |-> key_value_splitter]
         /\ result' = DictParser_parse(
                          DictParser(NoneV, value_parser, sequence_splitter,
                                     key_value_splitter),
                          JoinWith(entries, <<",">>))
    /\ pc' = "done"
    /\ UNCHANGED <<rest, cur, log, inst, hist>>

SpecDict == InitIdle /\ [][DictParse]_vars

\* an entry 'key:value': one ":" with text on both sides, the value an
\* integer literal when the value parser is Int
WellFormedEntry(e, value_parser) ==
    /\ Len(e) = 3 /\ e[2] = ":" /\ e[1] # ":" /\ e[3] # ":"
    /\ value_parser # NoneV => IsDigit(e[3])

\* C1: for entries 'key:value' joined by the sequence splitter, parse
\* returns the mapping from each key to the parsed value of the last entry
\* carrying it, and does not end in an error.
C1_LastEntryWins ==
    (pc = "done" /\ call.op = "DictParser.parse"
        /\ call.sequence_splitter = StrV(<<",">>)
        /\ call.key_value_splitter = StrV(<<":">>)
        /\ call.entries # <<>>
        /\ \A k \in 1..Len(call.entries) : WellFormedEntry(call.entries[k], call.value_parser))
    =>  LET es == call.entries
            val(e) == IF call.value_parser = NoneV THEN StrV(<<e[3]>>)
                      ELSE IntV(DigitOf(e[3]))
            last == {k \in 1..Len(es) : \A j \in (k + 1)..Len(es) : es[j][1] # es[k][1]}
        IN  /\ ~IsErr(result)
            /\ result = DictV({<<StrV(<<es[k][1]>>), val(es[k])>> : k \in last})


---------------------------------------------------------------------------
(* One instance, parse called on it again and again.                       *)

\* ChainParser._chain_parsers, the recursion as a whole
RECURSIVE _chain_parsers(_, _)
chain_continue(frame) ==
    IF IsErr(frame.out) THEN frame.out ELSE _chain_parsers(frame.string, frame.parsers)

_chain_parsers(string, parsers) ==
    IF parsers = <<>> THEN string
    ELSE chain_continue(_chain_parsers_frame(string, parsers))

\* self.parse(string) for an instance of any class of the module
any_parse(self, string) ==
    CASE self.cls = "ChainParser" -> _chain_parsers(StrV(string), self.parsers)
      [] self.cls = "ListParser" -> ListParser_parse(self, string)
      [] self.cls = "SetParser" -> SetParser_parse(self, string)
      [] self.cls = "IntListParser" -> IntListParser_parse(self, string)
      [] self.cls = "TupleParser" -> TupleParser_parse(self, string)
      [] self.cls = "DictParser" -> DictParser_parse(self, string)
      [] OTHER -> transform_parse(self, StrV(string))

\* a plausible slip: _iterable_parse keeping the splitter it decided on the
\* instance (self.splitter = ...) instead of in its local variable
attributes_after_parse_cached(self, string) ==
    IF self.cls \in {"ListParser", "SetParser", "TupleParser"} /\ self.splitter = NoneV
    THEN [self EXCEPT !.splitter = _decide_splitter(str_strip(string), NoneV)]
    ELSE self

\* The attributes of the instance after parse(string): no parse method and
\* no helper assigns to an attribute of self (`string = ...`,
\* `splitter = ...` and `count = ...` rebind locals).
attributes_after_parse(self, string) == self

\* a record constructor of two fields, as the dataclass of a TupleParser
Point2 == [tag |-> "dataclass", v |-> 2]

\* one instance of every parser class, with and without a splitter
ReuseInstances ==
    {IntParser(IntV(10)), IntParser(IntV(2)), BoolParser(NoneV, NoneV),
     CustomTransform("str.upper"), SortTransform(TRUE),
     MapTransform(<< <<StrV(<<"1">>), IntV(1)>> >>),
     ReplaceTransform(<< <<(<<",">>), (<<" ">>)>>, <<(<<" ">>), (<<"1">>)>> >>),
     ChainParser(<<SortTransform(FALSE), CustomTransform("str.upper")>>),
     BaseIterableParser("ListParser", NoneV, NoneV),
     BaseIterableParser("ListParser", ParserV(IntParser(IntV(10))), StrV(<<",">>)),
     BaseIterableParser("SetParser", NoneV, NoneV),
     IntListParser(IntV(10)),
     TupleParser(ListV(<<StrType, ParserV(IntParser(IntV(10)))>>), NoneV, NoneV, NoneV),
     TupleParser(NoneV, StrV(<<",">>), NoneV, Point2),
     TupleParser(NoneV, NoneV, StrV(<<"{", "}", ",", "{", "}">>), NoneV),
     DictParser(NoneV, NoneV, StrV(<<",">>), StrV(<<":">>))}

ReuseTexts ==
    {<<>>, <<"1">>, <<"a", ",", "1">>, <<"a", " ", "1">>, <<"b", ":", "1", ",", "a", " ", "2">>,
     <<" ", "1", "0", "\n">>}

\* the caller builds a parser
Construct ==
    /\ pc = "idle"
    /\ inst' \in ReuseInstances
    /\ call' = [op |-> "construct"]
    /\ pc' = "ready"
    /\ UNCHANGED <<result, rest, cur, log, hist>>

\* the caller calls inst.parse(text)
Returned(text, outcome, after) ==
    /\ call' = [op |-> "parse", string |-> text]
    /\ result' = outcome
    /\ inst' = after
    /\ hist' = Append(hist, [string |-> text, before |-> inst, after |-> after,
                             outcome |-> outcome])

ReuseParse ==
    /\ pc = "ready"
    /\ Len(hist) < MaxCalls
    /\ \E text \in ReuseTexts :
         Returned(text, any_parse(inst, text), attributes_after_parse(inst, text))
    /\ UNCHANGED <<pc, rest, cur, log>>

ReuseNext == Construct \/ ReuseParse

SpecReuse == InitIdle /\ [][ReuseNext]_vars

=============================================================================
